---- MODULE Spec2Model ----
(***************************************************************************)
(* A model of the airsim-js drone mission executor: the MissionControl     *)
(* driver (src/src/index.ts), the FlightPlanSequence composite and the     *)
(* AirSimAction leaves (src/src/actions.ts), run on a behavior tree        *)
(*   LatchedSelector 'Mission'                                             *)
(*     [ FlightPlanSequence 'FlightPlan' plan,                             *)
(*       LatchedSequence 'AbortProcedure' [LandAction, StopMotorsAction] ] *)
(* Every JavaScript callback (launch, abort, one timer firing, one promise *)
(* continuation) runs to completion on the single event loop, so each is   *)
(* one atomic action.  Lengths are in centimetres (metres * 100) so that   *)
(* LandAction's 0.5 m target and 0.01 m margin are integers.               *)
(***************************************************************************)
EXTENDS Integers, Sequences, FiniteSets, TLC

\* ---------------------------------------------------------------- bounds
\* abort() calls made by the environment in one run
MaxAborts == 2
\* launch() calls made by the environment in one run
MaxLaunches == 3
\* a saturating cap on the per-leaf count of issued / outstanding commands
MaxCmds == 3
\* start() and stop() calls made on the legacy controller in one run
MaxStarts == 3
MaxStops == 2

\* ------------------------------------------------------- program constants
\* actions.ts: HOVER_HT = -3, HOVER_HT_MARGIN = 1, POS_MARGIN = 5 (metres)
HOVER_HT == -300
HOVER_HT_MARGIN == 100
POS_MARGIN == 500
\* LandAction: super(name, 0.5, 0.01, timeOut)
LAND_HT == 50
LAND_MARGIN == 1
\* main(): new TakeoffAction('TakeoffAction', -2)
TAKEOFF_HT == -200

\* blueshell result codes, and JavaScript's undefined
RUNNING == "RUNNING"
SUCCESS == "SUCCESS"
FAILURE == "FAILURE"
ERROR == "ERROR"
UNDEF == "undefined"
ResultCode == {RUNNING, SUCCESS, FAILURE, ERROR}
Terminal(c) == c \in {SUCCESS, FAILURE, ERROR}

\* MissionEvent values sent into the tree
BTEvents == {"tic", "abort"}

\* Vector3 values
Vec(x, y, z) == [x |-> x, y |-> y, z |-> z]
\* the commented-out MoveToPosition1Action target of main(): (80, 0, -1.5)
PointA == Vec(8000, 0, -150)
\* ReturnHomeAction: new Vector3(0, 0, HOVER_HT)
Home == Vec(0, 0, HOVER_HT)

\* the poses the vehicle's getPose() may report
Poses ==
  { PointA,                      \* exactly at A
    Vec(8500, 0, -150),          \* 5 m from A: on the margin
    Vec(13000, 0, -150),         \* 50 m from A
    Vec(0, 0, 0),                \* on the ground, height 0
    Vec(0, 0, 50),               \* at the land target height 0.5
    Vec(0, 0, -200) }            \* at the takeoff height -2

\* the messages a rejected vehicle command may carry
Messages == {"timeout"}

\* the flight plans a run may be constructed with
FlightPlans ==
  { <<"MoveToPosition", "Land">>,
    <<"Takeoff", "ReturnHome">> }
\* main(): the 'AbortProcedure' sequence
AbortPlan == <<"Land", "StopMotors">>

\* composite ids
FP == 1
AP == 2

VARIABLES
  plan,       \* the leaves of the flight plan (fixed at construction)
  cascade,    \* whether a composite evaluates its next child in the same call
  root,       \* the 'Mission' selector's storage
  seq,        \* the two sequences' storage (and FlightPlanSequence.aborted)
  leaf,       \* per leaf: _status, storage.lastResult, outstanding commands
  bb,         \* MissionState: errorReason, hoverHt
  timer,      \* MissionControl._timer is set
  status,     \* MissionControl._status
  emitted,    \* the notifications emitted so far, with the status at emission
  lastOp,     \* the last operation run and its outcome
  calls       \* how many launch() / abort() calls have been made

vars == <<plan, cascade, root, seq, leaf, bb, timer, status, emitted, lastOp, calls>>

\* ------------------------------------------------------------ tree layout
NLeaves == Len(plan) + Len(AbortPlan)
Leaves == 1..NLeaves
\* the leaf ids of a sequence, last to first
Children_reversed(s) ==
  IF s = FP THEN [i \in 1..Len(plan) |-> Len(plan) + 1 - i]
  ELSE [i \in 1..Len(AbortPlan) |-> NLeaves + 1 - i]

\* the leaf ids of a sequence, in list order
Children(s) ==
  IF s = FP THEN [i \in 1..Len(plan) |-> i]
  ELSE [i \in 1..Len(AbortPlan) |-> Len(plan) + i]
FPLeaves == 1..Len(plan)
APLeaves == (Len(plan) + 1)..NLeaves
Kind(l) == IF l <= Len(plan) THEN plan[l] ELSE AbortPlan[l - Len(plan)]
IsZKind(k) == k \in {"Takeoff", "Land"}
IsPosKind(k) == k \in {"MoveToPosition", "ReturnHome"}
IsVelKind(k) == k \in {"StopMotors"}

\* constructor arguments of the leaves
TargetHt(k) == IF k = "Takeoff" THEN TAKEOFF_HT ELSE LAND_HT
TargetMargin(k) == IF k = "Takeoff" THEN HOVER_HT_MARGIN ELSE LAND_MARGIN
InitTargetPos(k) == IF k = "ReturnHome" THEN Home ELSE PointA

Inc(n) == IF n < MaxCmds THEN n + 1 ELSE n

\* the state of a leaf after construction
InitLeaf(k) ==
  [ status |-> UNDEF,          \* AirSimAction._status
    lastResult |-> UNDEF,      \* blueshell node storage: lastResult
    moves |-> 0,               \* outstanding vehicle commands of this leaf
    poses |-> 0,               \* outstanding getPose() reads of this leaf
    issued |-> 0,              \* vehicle commands issued so far (history)
    targetPos |-> InitTargetPos(k),
    readPose |-> <<>> ]        \* the poses its getPose() has reported (history)

\* the state of the blackboard after construction
InitMissionState == [errorReason |-> UNDEF, hoverHt |-> HOVER_HT]

\* F applied to the value of x, x evaluated once
Let(x, F(_)) == CHOOSE y \in {F(v) : v \in {x}} : TRUE

\* the result of one handleEvent call: the tree after it, the code returned,
\* the leaves that received the event and the leaves it activated
Ret(t, res) == [t |-> t, res |-> res, visited |-> {}, activated |-> {}]
Join(r1, r2) ==
  [r2 EXCEPT !.visited = r1.visited \cup r2.visited,
             !.activated = r1.activated \cup r2.activated]

\* ------------------------------------------------------------ the leaves
\* return this.status, with the tree as the call leaves it
Returned(t, l) == [t |-> t, res |-> t.leaf[l].status]

\* activate that returns this.status without having set it to RUNNING
AirSimAction_activate_statusUnset(t, l) == Returned(t, l)

\* AirSimAction.activate: this._status = rc.RUNNING; return this.status
AirSimAction_activate(t, l) ==
  Returned([t EXCEPT !.leaf[l].status = RUNNING], l)

\* this._promise = state.drone.<command>(...): one command goes out
IssueCommand(t, l) ==
  [t EXCEPT !.leaf[l].moves = Inc(@), !.leaf[l].issued = Inc(@)]

\* MoveToZAction.activate
MoveToZAction_activate(t, l) ==
  Returned(IssueCommand(AirSimAction_activate(t, l).t, l), l)

\* TakeoffAction.activate: state.hoverHt = this.targetHt; super.activate
TakeoffAction_activate(t, l) ==
  MoveToZAction_activate([t EXCEPT !.bb.hoverHt = TargetHt(Kind(l))], l)

\* MoveToPositionAction.activate
MoveToPositionAction_activate(t, l) ==
  Returned(IssueCommand(AirSimAction_activate(t, l).t, l), l)

\* a ReturnHomeAction that keeps the altitude its constructor was given
ReturnHomeAction_activate_constructorHt(t, l) ==
  MoveToPositionAction_activate(t, l)

\* ReturnHomeAction.activate: this.targetPos.z = state.hoverHt; super.activate
ReturnHomeAction_activate(t, l) ==
  MoveToPositionAction_activate(
    [t EXCEPT !.leaf[l].targetPos.z = t.bb.hoverHt], l)

\* MoveByVelocityAction.activate (StopMotorsAction)
MoveByVelocityAction_activate(t, l) ==
  Returned(IssueCommand(AirSimAction_activate(t, l).t, l), l)

\* the activate the leaf's class dispatches to
activate(t, l) ==
  CASE Kind(l) = "Takeoff" -> TakeoffAction_activate(t, l)
    [] Kind(l) = "Land" -> MoveToZAction_activate(t, l)
    [] Kind(l) = "MoveToPosition" -> MoveToPositionAction_activate(t, l)
    [] Kind(l) = "ReturnHome" -> ReturnHomeAction_activate(t, l)
    [] OTHER -> MoveByVelocityAction_activate(t, l)

\* AirSimAction.isCompletionEvent: this._status !== rc.RUNNING
isCompletionEvent(t, l) == t.leaf[l].status # RUNNING

\* what a leaf's onEvent hands to _afterEvent
Fresh(a, l) == [t |-> a.t, res |-> a.res, visited |-> {l}, activated |-> {l}]
Continued(t, res, l) == [t |-> t, res |-> res, visited |-> {l}, activated |-> {}]

\* Base._afterEvent: storage.lastResult = res
Base_afterEvent(r, l) == [r EXCEPT !.t.leaf[l].lastResult = r.res]

\* RunningAction.onEvent: a fresh entry activates; a continuation returns the
\* leaf's current status (RUNNING until the command's continuation has run)
RunningAction_onEvent(t, l, ev) ==
  IF t.leaf[l].lastResult # RUNNING
  THEN Let(activate(t, l), LAMBDA a : Fresh(a, l))
  ELSE IF isCompletionEvent(t, l)
       THEN Continued(t, t.leaf[l].status, l)
       ELSE Continued(t, RUNNING, l)

\* Base.handleEvent of a leaf: onEvent, then the result is cached
Leaf_handleEvent(t, l, ev) ==
  Let(RunningAction_onEvent(t, l, ev), LAMBDA r : Base_afterEvent(r, l))

\* --------------------------------------------------------- the composites
\* an isAborted that never reports the flag
FlightPlanSequence_isAborted_never(t) == FALSE

\* FlightPlanSequence.isAborted
FlightPlanSequence_isAborted(t) == t.seq[FP].aborted

\* the precondition FlightPlanSequence would inherit without its override
FlightPlanSequence_precondition_inherited(t) == TRUE

\* FlightPlanSequence.precondition: return !this.isAborted()
FlightPlanSequence_precondition(t) == ~FlightPlanSequence_isAborted(t)

\* Base.precondition is true unless the class overrides it
precondition(t, s) == IF s = FP THEN FlightPlanSequence_precondition(t) ELSE TRUE

\* FlightPlanSequence._afterEvent: the code handed on to super._afterEvent
FlightPlanSequence_afterEvent(res, t) ==
  IF FlightPlanSequence_isAborted(t) THEN FAILURE ELSE res

\* Sequence.handleChild from child i: RUNNING is returned and remembered,
\* SUCCESS advances, FAILURE and ERROR are returned at once
RECURSIVE Sequence_handleChild(_, _, _, _)
\* what the sequence does with the result r of its child i
Sequence_afterChild(r, s, i, ev) ==
  IF r.res = SUCCESS THEN
    IF i = Len(Children(s)) THEN r
    ELSE IF cascade
         THEN Let(Sequence_handleChild(r.t, s, i + 1, ev), LAMBDA r2 : Join(r, r2))
    ELSE [r EXCEPT !.t.seq[s].running = i + 1, !.res = RUNNING]
  ELSE IF r.res = RUNNING THEN [r EXCEPT !.t.seq[s].running = i]
  ELSE r
Sequence_handleChild(t, s, i, ev) ==
  IF i > Len(Children(s)) THEN Ret(t, SUCCESS)
  ELSE Let(Leaf_handleEvent(t, Children(s)[i], ev),
           LAMBDA r : Sequence_afterChild(r, s, i, ev))

\* Sequence.onEvent: resume at the child that was RUNNING, else at the first
Sequence_onEvent(t, s, ev) ==
  Sequence_handleChild([t EXCEPT !.seq[s].running = 0], s,
                       IF t.seq[s].running # 0 THEN t.seq[s].running ELSE 1, ev)

\* a terminal result is latched
Latch(r, s, res) ==
  [r EXCEPT !.res = res, !.t.seq[s].latch = IF Terminal(res) THEN res ELSE @]

\* _afterEvent of a latched sequence: FlightPlanSequence's override first
LatchedSequence_afterEvent(r, s) ==
  Latch(r, s, IF s = FP THEN FlightPlanSequence_afterEvent(r.res, r.t) ELSE r.res)

\* Base.handleEvent of a latched sequence: a false precondition refuses the
\* event with FAILURE; a latched result is returned without any child
LatchedSequence_handleEvent(t, s, ev) ==
  IF ~precondition(t, s) THEN Ret(t, FAILURE)
  ELSE IF t.seq[s].latch # UNDEF THEN Ret(t, t.seq[s].latch)
  ELSE Let(Sequence_onEvent(t, s, ev), LAMBDA r : LatchedSequence_afterEvent(r, s))

\* FlightPlanSequence.handleEvent: 'abort' sets the flag, then super.handleEvent
FlightPlanSequence_handleEvent(t, ev) ==
  Let(IF ev = "abort" THEN [t EXCEPT !.seq[FP].aborted = TRUE] ELSE t,
      LAMBDA t1 : LatchedSequence_handleEvent(t1, FP, ev))

\* a 'Mission' whose two children are both the flight plan
Branch_handleEvent_noAbortProcedure(t, s, ev) ==
  FlightPlanSequence_handleEvent(t, ev)

\* handleEvent of the root's child s
Branch_handleEvent(t, s, ev) ==
  IF s = FP THEN FlightPlanSequence_handleEvent(t, ev)
  ELSE LatchedSequence_handleEvent(t, s, ev)

\* Selector.handleChild from child i: SUCCESS and RUNNING are returned,
\* FAILURE and ERROR advance; the last child's code is returned as it is
RECURSIVE Selector_handleChild(_, _, _)
\* what the selector does with the result r of its child i
Selector_afterChild(r, i, ev) ==
  IF r.res = SUCCESS THEN r
  ELSE IF r.res = RUNNING THEN [r EXCEPT !.t.root.running = i]
  ELSE IF i = AP THEN r
  ELSE IF cascade
       THEN Let(Selector_handleChild(r.t, i + 1, ev), LAMBDA r2 : Join(r, r2))
  ELSE [r EXCEPT !.t.root.running = i + 1, !.res = RUNNING]
Selector_handleChild(t, i, ev) ==
  Let(Branch_handleEvent(t, i, ev), LAMBDA r : Selector_afterChild(r, i, ev))

\* _afterEvent of the latched selector: a terminal result is latched
LatchedSelector_afterEvent(r) ==
  [r EXCEPT !.t.root.latch = IF Terminal(r.res) THEN r.res ELSE @]

\* handleEvent of the 'Mission' LatchedSelector
LatchedSelector_handleEvent(t, ev) ==
  IF t.root.latch # UNDEF THEN Ret(t, t.root.latch)
  ELSE Let(Selector_handleChild([t EXCEPT !.root.running = 0],
                                IF t.root.running # 0 THEN t.root.running ELSE FP, ev),
           LAMBDA r : LatchedSelector_afterEvent(r))

\* ---------------------------------------------------------- the controller
\* the tree and the blackboard as one value
Tree == [root |-> root, seq |-> seq, leaf |-> leaf, bb |-> bb]

\* MissionControl.sendBTEvent: this.mission.handleEvent(state, event)
sendBTEvent(t, ev) == LatchedSelector_handleEvent(t, ev)

\* isActive written as "not complete": true of a controller never launched
isActive_notComplete == (IF status = UNDEF THEN RUNNING ELSE status) = RUNNING

\* MissionControl.isActive: !!this._timer
isActive == timer

\* MissionControl.isComplete: (this.status ?? rc.RUNNING) !== rc.RUNNING
isComplete == (IF status = UNDEF THEN RUNNING ELSE status) # RUNNING

\* the guard of launch() without its test of a terminal status
launchThrows_activeOnly == timer

\* the guard of launch(): the condition under which it throws
launchThrows == isActive \/ (status # UNDEF /\ status # RUNNING)

\* a notification emitted before the status is assigned
Emit_beforeStatus(name) == Append(emitted, [name |-> name, status |-> status])

\* this.emit(name, this.missionState), with the status the listeners find
Emit(name) == Append(emitted, [name |-> name, status |-> status'])

SetTree(t) ==
  /\ root' = t.root
  /\ seq' = t.seq
  /\ leaf' = t.leaf
  /\ bb' = t.bb

\* this._status = this.sendBTEvent(...): the tree and the status after it
Sent(r) == SetTree(r.t) /\ status' = r.res

TypeOK ==
  /\ plan \in FlightPlans
  /\ cascade \in BOOLEAN
  /\ timer \in BOOLEAN
  /\ status \in ResultCode \cup {UNDEF}

Init ==
  /\ plan \in FlightPlans
  /\ cascade \in BOOLEAN
  /\ root = [running |-> 0, latch |-> UNDEF]
  /\ seq = [s \in {FP, AP} |-> [running |-> 0, latch |-> UNDEF, aborted |-> FALSE]]
  /\ leaf = [l \in Leaves |-> InitLeaf(Kind(l))]
  /\ bb = InitMissionState
  /\ timer = FALSE
  /\ status = UNDEF
  /\ emitted = <<>>
  /\ lastOp = "new"
  /\ calls = [launch |-> 0, launched |-> 0, abort |-> 0]

\* a launch() that starts the timer without assigning the status
LaunchOk_statusUnset ==
  /\ calls.launch < MaxLaunches
  /\ ~launchThrows
  /\ status' = status
  /\ emitted' = Emit("launch")
  /\ timer' = TRUE
  /\ lastOp' = "launch:ok"
  /\ calls' = [calls EXCEPT !.launch = @ + 1, !.launched = @ + 1]
  /\ UNCHANGED <<plan, cascade, root, seq, leaf, bb>>

\* launch() on a controller that may be launched
LaunchOk ==
  /\ calls.launch < MaxLaunches
  /\ ~launchThrows
  /\ status' = RUNNING
  /\ emitted' = Emit("launch")
  /\ timer' = TRUE
  /\ lastOp' = "launch:ok"
  /\ calls' = [calls EXCEPT !.launch = @ + 1, !.launched = @ + 1]
  /\ UNCHANGED <<plan, cascade, root, seq, leaf, bb>>

\* launch() that throws Error('Mission already running')
LaunchThrow ==
  /\ calls.launch < MaxLaunches
  /\ launchThrows
  /\ lastOp' = "launch:throw"
  /\ calls' = [calls EXCEPT !.launch = @ + 1]
  /\ UNCHANGED <<plan, cascade, root, seq, leaf, bb, timer, status, emitted>>

\* a timer firing that sends 'tic' and stops the timer in the same firing
\* when the code returned is terminal
Tic_stopsAtOnce ==
  /\ timer
  /\ ~isComplete
  /\ \E r \in {sendBTEvent(Tree, "tic")} :
       /\ Sent(r)
       /\ timer' = ~Terminal(r.res)
       /\ emitted' = IF Terminal(r.res) THEN Emit("complete") ELSE emitted
  /\ lastOp' = "tic"
  /\ UNCHANGED <<plan, cascade, calls>>

\* a timer firing that sends 'tic' into the tree
Tic ==
  /\ timer
  /\ ~isComplete
  /\ \E r \in {sendBTEvent(Tree, "tic")} : Sent(r)
  /\ lastOp' = "tic"
  /\ UNCHANGED <<plan, cascade, timer, emitted, calls>>

\* stopTic() that emits 'complete' and leaves the interval running
StopTic_timerKept ==
  /\ timer
  /\ isComplete
  /\ timer' = timer
  /\ status' = status
  /\ emitted' = Emit("complete")
  /\ lastOp' = "stopTic"
  /\ UNCHANGED <<plan, cascade, root, seq, leaf, bb, calls>>

\* a timer firing that finds the mission complete: stopTic()
StopTic ==
  /\ timer
  /\ isComplete
  /\ timer' = FALSE
  /\ status' = status
  /\ emitted' = Emit("complete")
  /\ lastOp' = "stopTic"
  /\ UNCHANGED <<plan, cascade, root, seq, leaf, bb, calls>>

\* abort() on an active controller
AbortActive ==
  /\ calls.abort < MaxAborts
  /\ isActive
  /\ \E r \in {sendBTEvent(Tree, "abort")} : Sent(r)
  /\ emitted' = Emit("abort")
  /\ lastOp' = "abort:sent"
  /\ calls' = [calls EXCEPT !.abort = @ + 1]
  /\ UNCHANGED <<plan, cascade, timer>>

\* abort() on an inactive controller: one of the two logged no-ops
AbortInactive ==
  /\ calls.abort < MaxAborts
  /\ ~isActive
  /\ lastOp' = IF status = UNDEF THEN "abort:notstarted"
               ELSE IF isComplete THEN "abort:completed"
               ELSE "abort:nothing"
  /\ calls' = [calls EXCEPT !.abort = @ + 1]
  /\ UNCHANGED <<plan, cascade, root, seq, leaf, bb, timer, status, emitted>>

\* ------------------------------------------- the vehicle's continuations
Abs(x) == IF x < 0 THEN -x ELSE x
\* the square of Vector3.distanceTo
DistSq(p, q) ==
  (p.x - q.x) * (p.x - q.x) + (p.y - q.y) * (p.y - q.y) + (p.z - q.z) * (p.z - q.z)

\* the altitude check with the two result codes exchanged
MoveToZAction_onPose_swapped(t, l, pose) ==
  [t EXCEPT !.leaf[l].status =
     IF Abs(pose.z - TargetHt(Kind(l))) <= TargetMargin(Kind(l))
     THEN FAILURE ELSE SUCCESS]

\* MoveToZAction: the getPose().then callback
MoveToZAction_onPose(t, l, pose) ==
  [t EXCEPT !.leaf[l].status =
     IF Abs(pose.z - TargetHt(Kind(l))) <= TargetMargin(Kind(l))
     THEN SUCCESS ELSE FAILURE]

\* the position check with < in place of <=
MoveToPositionAction_onPose_strict(t, l, pose) ==
  [t EXCEPT !.leaf[l].status =
     IF DistSq(pose, t.leaf[l].targetPos) < POS_MARGIN * POS_MARGIN
     THEN SUCCESS ELSE FAILURE]

\* MoveToPositionAction: the getPose().then callback
MoveToPositionAction_onPose(t, l, pose) ==
  [t EXCEPT !.leaf[l].status =
     IF DistSq(pose, t.leaf[l].targetPos) <= POS_MARGIN * POS_MARGIN
     THEN SUCCESS ELSE FAILURE]

\* MoveByVelocityAction: the command's then callback
MoveByVelocityAction_onResolved(t, l) == [t EXCEPT !.leaf[l].status = SUCCESS]

\* a catch callback that sets the status and drops the message
onRejected_messageDropped(t, l, msg) == [t EXCEPT !.leaf[l].status = ERROR]

\* the catch callback of every leaf
onRejected(t, l, msg) ==
  [t EXCEPT !.bb.errorReason = msg, !.leaf[l].status = ERROR]

\* a then callback that reports SUCCESS as soon as the move command resolves,
\* with the pose read still to come
onMoveResolved_successAtOnce(t, l) ==
  [t EXCEPT !.leaf[l].poses = Inc(@), !.leaf[l].status = SUCCESS]

\* the then callback of a move command of a leaf with a pose check:
\* state.drone.getPose() is called, and its promise is not returned
onMoveResolved(t, l) == [t EXCEPT !.leaf[l].poses = Inc(@)]

\* the rejection of getPose(): no handler is attached to that promise
onPoseRejected(t, l) == t

\* the then callback the leaf's class attached to its command
onResolved(t, l) ==
  IF IsVelKind(Kind(l)) THEN MoveByVelocityAction_onResolved(t, l)
  ELSE onMoveResolved(t, l)

\* the then callback the leaf's class attached to its pose read
onPose(t, l, pose) ==
  IF IsZKind(Kind(l)) THEN MoveToZAction_onPose(t, l, pose)
  ELSE MoveToPositionAction_onPose(t, l, pose)

\* the vehicle resolves a command of leaf l
CommandResolved(l) ==
  /\ leaf[l].moves > 0
  /\ SetTree(onResolved([Tree EXCEPT !.leaf[l].moves = @ - 1], l))
  /\ lastOp' = "resolved"
  /\ UNCHANGED <<plan, cascade, timer, status, emitted, calls>>

\* the vehicle rejects a command of leaf l
CommandRejected(l, msg) ==
  /\ leaf[l].moves > 0
  /\ SetTree(onRejected([Tree EXCEPT !.leaf[l].moves = @ - 1], l, msg))
  /\ lastOp' = "rejected"
  /\ UNCHANGED <<plan, cascade, timer, status, emitted, calls>>

\* the vehicle answers a pose read of leaf l
PoseResolved(l, pose) ==
  /\ leaf[l].poses > 0
  /\ SetTree(onPose([Tree EXCEPT !.leaf[l].poses = @ - 1,
                                  !.leaf[l].readPose = <<pose>>], l, pose))
  /\ lastOp' = "pose"
  /\ UNCHANGED <<plan, cascade, timer, status, emitted, calls>>

\* the vehicle rejects a pose read of leaf l
PoseRejected(l) ==
  /\ leaf[l].poses > 0
  /\ SetTree(onPoseRejected([Tree EXCEPT !.leaf[l].poses = @ - 1], l))
  /\ lastOp' = "poseRejected"
  /\ UNCHANGED <<plan, cascade, timer, status, emitted, calls>>

Next ==
  \/ LaunchOk
  \/ LaunchThrow
  \/ Tic
  \/ StopTic
  \/ AbortActive
  \/ AbortInactive
  \/ \E l \in Leaves : CommandResolved(l)
  \/ \E l \in Leaves, msg \in Messages : CommandRejected(l, msg)
  \/ \E l \in Leaves, pose \in Poses : PoseResolved(l, pose)
  \/ \E l \in Leaves : PoseRejected(l)

Spec == Init /\ [][Next]_vars

\* every leaf id of any plan
LeafIds == UNION {1..(Len(p) + Len(AbortPlan)) : p \in FlightPlans}

\* the vehicle settles an outstanding command or pose read of leaf l
Settled(l) ==
  /\ l \in Leaves
  /\ \/ CommandResolved(l)
     \/ \E msg \in Messages : CommandRejected(l, msg)
     \/ \E pose \in Poses : PoseResolved(l, pose)
     \/ PoseRejected(l)

\* the interval timer keeps firing while it is set, and the vehicle settles
\* every command and every pose read it was given
FairSpec ==
  /\ Spec
  /\ WF_vars(Tic)
  /\ WF_vars(StopTic)
  /\ \A l \in LeafIds : WF_vars(Settled(l))

\* ------------------------------------- the legacy controller (start/stop)
\* the guard of start(): the condition under which it throws
startThrows == timer \/ (status # UNDEF /\ status # RUNNING)

\* legacy MissionControl.isRunning: !!this._timer
isRunning == timer

\* legacy MissionControl.shouldContinueMission
shouldContinueMission ==
  status = UNDEF \/ (status = RUNNING /\ bb.errorReason = UNDEF)

\* the legacy controller after construction
LegacyInit ==
  /\ plan \in FlightPlans
  /\ cascade \in BOOLEAN
  /\ root = [running |-> 0, latch |-> UNDEF]
  /\ seq = [s \in {FP, AP} |-> [running |-> 0, latch |-> UNDEF, aborted |-> FALSE]]
  /\ leaf = [l \in Leaves |-> InitLeaf(Kind(l))]
  /\ bb = InitMissionState
  /\ timer = FALSE
  /\ status = UNDEF
  /\ emitted = <<>>
  /\ lastOp = "new"
  /\ calls = [start |-> 0, started |-> 0, stop |-> 0]

\* start() on a controller that may be started
StartOk ==
  /\ calls.start < MaxStarts
  /\ ~startThrows
  /\ status' = RUNNING
  /\ emitted' = Emit("started")
  /\ timer' = TRUE
  /\ lastOp' = "start:ok"
  /\ calls' = [calls EXCEPT !.start = @ + 1, !.started = @ + 1]
  /\ UNCHANGED <<plan, cascade, root, seq, leaf, bb>>

\* start() that throws Error('Mission already running')
StartThrow ==
  /\ calls.start < MaxStarts
  /\ startThrows
  /\ lastOp' = "start:throw"
  /\ calls' = [calls EXCEPT !.start = @ + 1]
  /\ UNCHANGED <<plan, cascade, root, seq, leaf, bb, timer, status, emitted>>

\* a timer firing that sends 'tic' into the tree
LegacyTic ==
  /\ timer
  /\ shouldContinueMission
  /\ \E r \in {sendBTEvent(Tree, "tic")} : Sent(r)
  /\ lastOp' = "tic"
  /\ UNCHANGED <<plan, cascade, timer, emitted, calls>>

\* stop() while the timer is set: clearInterval, 'stopped' is emitted
stop ==
  /\ timer' = FALSE
  /\ status' = status
  /\ emitted' = Emit("stopped")
  /\ UNCHANGED <<plan, cascade, root, seq, leaf, bb>>

\* a timer firing that finds the mission should not continue: stop()
TimerStop ==
  /\ timer
  /\ ~shouldContinueMission
  /\ stop
  /\ lastOp' = "timer:stop"
  /\ UNCHANGED calls

\* stop() called on a controller whose timer is set
StopRunning ==
  /\ calls.stop < MaxStops
  /\ status # UNDEF
  /\ isRunning
  /\ stop
  /\ lastOp' = "stop:stopped"
  /\ calls' = [calls EXCEPT !.stop = @ + 1]

\* stop() called before start() or after the timer was cleared: nothing
StopIdle ==
  /\ calls.stop < MaxStops
  /\ status = UNDEF \/ ~isRunning
  /\ lastOp' = IF status = UNDEF THEN "stop:notstarted" ELSE "stop:nothing"
  /\ calls' = [calls EXCEPT !.stop = @ + 1]
  /\ UNCHANGED <<plan, cascade, root, seq, leaf, bb, timer, status, emitted>>

LegacyNext ==
  \/ StartOk
  \/ StartThrow
  \/ LegacyTic
  \/ TimerStop
  \/ StopRunning
  \/ StopIdle
  \/ \E l \in Leaves : CommandResolved(l)
  \/ \E l \in Leaves, msg \in Messages : CommandRejected(l, msg)
  \/ \E l \in Leaves, pose \in Poses : PoseResolved(l, pose)
  \/ \E l \in Leaves : PoseRejected(l)

LegacySpec == LegacyInit /\ [][LegacyNext]_vars

\* ================================================================ claims
LaunchCalled == calls'.launch # calls.launch
AbortCalled == calls'.abort # calls.abort
Completes == {i \in DOMAIN emitted : emitted[i].name = "complete"}
Launches == {i \in DOMAIN emitted : emitted[i].name = "launch"}

\* C1: launch() succeeds at most once per controller: every launch() call made
\* after the first successful one, whether the mission is running or already
\* terminal, throws and leaves the status, the timer and the notifications
\* as they were (no 'launch' is emitted).
C1_LaunchAtMostOnce ==
  /\ [](calls.launched <= 1 /\ Cardinality(Launches) <= 1)
  /\ [][(LaunchCalled /\ calls.launched >= 1) =>
          /\ lastOp' = "launch:throw"
          /\ calls'.launched = calls.launched
          /\ status' = status
          /\ timer' = timer
          /\ emitted' = emitted]_vars

\* a launch() thrown on a controller whose mission is already terminal
C1_Witness ==
  /\ lastOp = "launch:throw"
  /\ calls.launched = 1
  /\ ~timer
  /\ Terminal(status)

\* C2: abort() on a controller never launched is a no-op: nothing is sent into
\* the tree, no notification is emitted, no timer starts and the status stays
\* undefined; the next launch() succeeds.
C2_AbortBeforeLaunch ==
  /\ [][(AbortCalled /\ calls.launched = 0) =>
          /\ lastOp' = "abort:notstarted"
          /\ UNCHANGED <<root, seq, leaf, bb, emitted>>
          /\ ~timer'
          /\ status' = UNDEF]_vars
  /\ [][(LaunchCalled /\ calls.launched = 0) =>
          /\ lastOp' = "launch:ok"
          /\ status' = RUNNING
          /\ timer']_vars

\* launch() has succeeded after two abort() calls made before it
C2_Witness ==
  /\ calls.abort = MaxAborts
  /\ calls.launched = 1
  /\ emitted = <<[name |-> "launch", status |-> RUNNING]>>

\* C3: abort() is a no-op at every moment the status is terminal, the interval
\* between the firing that recorded the terminal status and the firing that
\* stops the timer included: no event is sent, the status is unchanged and no
\* 'abort' is emitted.
C3_AbortWhenTerminalNoOp ==
  [][(AbortCalled /\ Terminal(status)) =>
       /\ lastOp' # "abort:sent"
       /\ status' = status
       /\ emitted' = emitted]_vars

\* C4: 'complete' is emitted at most once, only with a terminal status and only
\* after 'launch'; once the timer of a launched controller has been stopped it
\* has been emitted exactly once.
C4_CompleteOnce ==
  /\ Cardinality(Completes) <= 1
  /\ \A i \in Completes :
       /\ Terminal(emitted[i].status)
       /\ i > 1
       /\ emitted[1].name = "launch"
  /\ (calls.launched >= 1 /\ ~timer) => Cardinality(Completes) = 1
  /\ (Completes # {}) => (~timer /\ Terminal(status))

\* 'complete' has been emitted after an accepted abort()
C4_Witness ==
  /\ Completes # {}
  /\ \E i \in DOMAIN emitted : emitted[i].name = "abort"
  /\ lastOp = "stopTic"

\* C5: after launch(), when every command and pose read is settled and the
\* timer keeps firing, the controller reaches a terminal status, the timer is
\* stopped and 'complete' is emitted.
C5_Termination ==
  (calls.launched >= 1) ~> (Terminal(status) /\ ~timer /\ Completes # {})

\* the step is the continuation of leaf l's pose read / rejected command
PoseStep(l) == lastOp' = "pose" /\ leaf'[l].poses < leaf[l].poses
PoseRejectedStep(l) == lastOp' = "poseRejected" /\ leaf'[l].poses < leaf[l].poses
RejectedStep(l) == lastOp' = "rejected" /\ leaf'[l].moves < leaf[l].moves
HasPoseCheck(l) == IsZKind(Kind(l)) \/ IsPosKind(Kind(l))

\* the pose is within the margin of leaf l's target: altitude difference at
\* most the leaf's margin, position distance at most 5 m
WithinMargin(l, pose) ==
  IF IsZKind(Kind(l))
  THEN Abs(pose.z - TargetHt(Kind(l))) <= TargetMargin(Kind(l))
  ELSE DistSq(pose, leaf[l].targetPos) <= POS_MARGIN * POS_MARGIN

\* C6: a position/altitude leaf becomes SUCCESS when its pose read is within
\* the margin, FAILURE when it is outside, ERROR with the message stored in
\* errorReason when its move command rejects; while its command or pose read
\* is outstanding its status is RUNNING.
C6_LeafOutcome ==
  /\ [](\A l \in Leaves :
          (leaf[l].moves > 0 \/ leaf[l].poses > 0) => leaf[l].status = RUNNING)
  /\ [][\A l \in Leaves : HasPoseCheck(l) =>
          /\ PoseStep(l) =>
               leaf'[l].status =
                 IF WithinMargin(l, leaf'[l].readPose[1]) THEN SUCCESS ELSE FAILURE
          /\ RejectedStep(l) =>
               /\ leaf'[l].status = ERROR
               /\ bb'.errorReason \in Messages]_vars

\* one run has produced all three outcomes, the SUCCESS on the 5 m margin
C6_Witness ==
  \E l1, l2, l3 \in Leaves :
    /\ HasPoseCheck(l1) /\ HasPoseCheck(l2) /\ HasPoseCheck(l3)
    /\ leaf[l1].status = SUCCESS /\ leaf[l1].readPose = <<Vec(8500, 0, -150)>>
    /\ leaf[l2].status = FAILURE /\ leaf[l2].readPose # <<>>
    /\ leaf[l3].status = ERROR /\ bb.errorReason \in Messages

\* C7: a rejected pose read sets the leaf's status to ERROR and records the
\* message in errorReason, as a rejected move command does.
C7_PoseRejectionIsError ==
  [][\A l \in Leaves : PoseRejectedStep(l) =>
       /\ leaf'[l].status = ERROR
       /\ bb'.errorReason # UNDEF]_vars

\* C8: a leaf issues its command once on a fresh entry (previous result not
\* RUNNING) and never on a continuation, so it never has more than one of its
\* own commands or pose reads outstanding.
C8_OneCommandPerEntry ==
  /\ [](\A l \in Leaves : leaf[l].moves + leaf[l].poses <= 1)
  /\ [][\A l \in Leaves :
          /\ leaf'[l].issued # leaf[l].issued =>
               /\ leaf[l].lastResult # RUNNING
               /\ leaf'[l].issued = leaf[l].issued + 1
          /\ (leaf[l].lastResult # RUNNING /\ leaf'[l].lastResult = RUNNING) =>
               leaf'[l].issued = leaf[l].issued + 1]_vars

\* a second abort event has reached a leaf whose command is still outstanding
C8_Witness ==
  /\ lastOp = "abort:sent"
  /\ calls.abort = MaxAborts
  /\ seq[AP].running # 0
  /\ \E l \in APLeaves :
       /\ l = Children(AP)[seq[AP].running]
       /\ leaf[l].moves = 1
       /\ leaf[l].issued = 1

\* the call returned FAILURE and reached no leaf
Refused(r) ==
  /\ r.res = FAILURE
  /\ r.visited = {}
  /\ r.activated = {}
  /\ r.t.leaf = leaf

\* C9: an 'abort' event makes FlightPlanSequence.handleEvent return FAILURE,
\* and so does every later event; no flight-plan leaf receives an event or is
\* activated again, also after the in-flight leg's command has resolved.
C9_AbortSticky ==
  /\ [](\E r \in {FlightPlanSequence_handleEvent(Tree, "abort")} : Refused(r))
  /\ [](seq[FP].aborted =>
          \A ev \in BTEvents :
            \E r \in {FlightPlanSequence_handleEvent(Tree, ev)} : Refused(r))
  /\ [][seq[FP].aborted =>
          /\ seq'[FP].aborted
          /\ \A l \in FPLeaves :
               /\ leaf'[l].issued = leaf[l].issued
               /\ leaf'[l].lastResult = leaf[l].lastResult]_vars

\* the leg that was in flight at the abort has since resolved to SUCCESS
C9_Witness ==
  /\ seq[FP].aborted
  /\ \E l \in FPLeaves :
       /\ leaf[l].status = SUCCESS
       /\ leaf[l].lastResult = RUNNING

\* a flight-plan leaf whose pose read was rejected
PoseLost(l) ==
  /\ leaf[l].issued >= 1
  /\ leaf[l].moves = 0
  /\ leaf[l].poses = 0
  /\ leaf[l].readPose = <<>>
  /\ leaf[l].status = RUNNING

\* the run so far is the nominal scenario: plan (move to A, land), no abort(),
\* every command resolved, the pose after the move exactly at A and the pose
\* after the landing landPose
Nominal(landPose) ==
  /\ plan = <<"MoveToPosition", "Land">>
  /\ calls.abort = 0
  /\ bb.errorReason = UNDEF
  /\ leaf[1].readPose \in {<<>>, <<PointA>>}
  /\ leaf[2].readPose \in {<<>>, <<landPose>>}
  /\ \A l \in FPLeaves : ~PoseLost(l)

\* RUNNING until SUCCESS, the abort procedure never entered, 'complete' once
NominalOutcome ==
  /\ calls.launched >= 1 => status \in {RUNNING, SUCCESS}
  /\ \A l \in APLeaves : leaf[l].issued = 0 /\ leaf[l].lastResult = UNDEF
  /\ status = SUCCESS => \A l \in FPLeaves : leaf[l].status = SUCCESS
  /\ Cardinality(Completes) <= 1
  /\ (calls.launched >= 1 /\ ~timer) =>
       (status = SUCCESS /\ Cardinality(Completes) = 1)

\* C10 as stated: in the nominal run with the landing pose at height 0 the
\* status is RUNNING until it is SUCCESS, the abort procedure is never
\* entered and 'complete' fires exactly once.
C10_NominalRun_Height0 ==
  /\ [](Nominal(Vec(0, 0, 0)) => NominalOutcome)
  /\ [][(Nominal(Vec(0, 0, 0))' /\ status = SUCCESS) => status' = SUCCESS]_vars

\* C10 amended: the same with the landing pose at LandAction's target height
\* 0.5 (within its margin 0.01).
C10_NominalRun_LandHeight ==
  /\ [](Nominal(Vec(0, 0, LAND_HT)) => NominalOutcome)
  /\ [][(Nominal(Vec(0, 0, LAND_HT))' /\ status = SUCCESS) => status' = SUCCESS]_vars

\* the nominal run has ended: both poses read, SUCCESS, timer stopped
C10_Witness ==
  /\ Nominal(Vec(0, 0, LAND_HT))
  /\ leaf[1].readPose = <<PointA>>
  /\ leaf[2].readPose = <<Vec(0, 0, LAND_HT)>>
  /\ status = SUCCESS
  /\ ~timer
  /\ Cardinality(Completes) = 1

\* the step is a call of the root's handleEvent (a timer's tic or abort())
TickStep == lastOp' \in {"tic", "abort:sent"} /\ <<root, seq, leaf, status>>' # <<root, seq, leaf, status>>

\* the flight-plan leg in progress has ended in code c and the flight plan has
\* not been evaluated since
LegEnded(c) ==
  /\ c \in {FAILURE, ERROR}
  /\ root.latch = UNDEF
  /\ seq[FP].latch = UNDEF
  /\ ~seq[FP].aborted
  /\ seq[FP].running # 0
  /\ leaf[Children(FP)[seq[FP].running]].lastResult = RUNNING
  /\ leaf[Children(FP)[seq[FP].running]].status = c

\* the flight plan has ended in FAILURE or ERROR
FlightPlanFailed == seq[FP].latch \in {FAILURE, ERROR}

\* the abort procedure is being, or has been, evaluated
AbortProcedureEntered == leaf[Children(AP)[1]].lastResult # UNDEF

\* C11: when a flight-plan leg has ended in FAILURE or ERROR, the next call of
\* the root makes the flight plan return that code and either evaluates the
\* abort procedure in the same call or selects it for the next one, which then
\* evaluates it; no flight-plan leaf is activated afterwards, and a terminal
\* controller status is the abort procedure's own terminal code.
C11_FailureFallback ==
  /\ [][\A c \in {FAILURE, ERROR} : (LegEnded(c) /\ TickStep) =>
          /\ lastOp' = "tic" => seq'[FP].latch = c
          /\ AbortProcedureEntered' \/ root'.running = AP]_vars
  /\ [][(root.running = AP /\ TickStep) => AbortProcedureEntered']_vars
  /\ [][(FlightPlanFailed \/ \E c \in {FAILURE, ERROR} : LegEnded(c)) =>
          \A l \in FPLeaves : leaf'[l].issued = leaf[l].issued]_vars
  /\ []((FlightPlanFailed /\ Terminal(status)) =>
          (status = seq[AP].latch /\ status = root.latch))

\* scenario 2 has run to its end: the pose after the move was 50 m from A, the
\* leg reported FAILURE, the abort procedure ran and its code is the status
C11_Witness ==
  /\ plan = <<"MoveToPosition", "Land">>
  /\ calls.abort = 0
  /\ leaf[1].readPose = <<Vec(13000, 0, -150)>>
  /\ seq[FP].latch = FAILURE
  /\ leaf[2].issued = 0
  /\ seq[AP].latch = SUCCESS
  /\ status = SUCCESS
  /\ ~timer

\* the call returned code c and invoked no child
LatchedReturn(r, c) ==
  /\ r.res = c
  /\ r.visited = {}
  /\ r.activated = {}
  /\ r.t.leaf = leaf

\* C12: once a latched composite (the root, the flight plan, the abort
\* procedure) has returned a terminal result, handleEvent with 'tic' or with
\* 'abort' returns that same result and invokes no child.
C12_LatchIdempotent ==
  /\ \A s \in {FP, AP} : seq[s].latch # UNDEF =>
       \A ev \in BTEvents :
         \E r \in {Branch_handleEvent(Tree, s, ev)} : LatchedReturn(r, seq[s].latch)
  /\ root.latch # UNDEF =>
       \A ev \in BTEvents :
         \E r \in {LatchedSelector_handleEvent(Tree, ev)} : LatchedReturn(r, root.latch)

\* an abort() call has been accepted (the 'abort' notification was emitted)
AbortAccepted == \E i \in DOMAIN emitted : emitted[i].name = "abort"

\* C13: abort() on a launched, active controller terminates the timer, and
\* after it no timer firing sends a 'tic' into the tree.
C13_AbortStopsTimer ==
  /\ [][(AbortCalled /\ lastOp' = "abort:sent") => ~timer']_vars
  /\ [][AbortAccepted => lastOp' # "tic"]_vars

StartCalled == calls'.start # calls.start

\* C14: on the legacy controller start() succeeds at most once: every start()
\* after the first successful one throws, also one made after stop() was
\* called while the status was still RUNNING.
C14_StartAtMostOnce ==
  /\ [](calls.started <= 1)
  /\ [][(StartCalled /\ calls.started >= 1) =>
          /\ lastOp' = "start:throw"
          /\ calls'.started = calls.started
          /\ timer' = timer
          /\ emitted' = emitted]_vars

\* the step is a firing of the interval timer
TimerFiring == lastOp' \in {"tic", "stopTic"}

\* C15: a firing sends 'tic' only when the status is RUNNING, and then only
\* stores the code returned (the timer stays set, nothing is emitted); a
\* firing that finds a terminal status sends nothing into the tree, stops the
\* timer and emits 'complete'.
C15_CompletionNextFiring ==
  /\ [][lastOp' = "tic" =>
          /\ status = RUNNING
          /\ timer /\ timer'
          /\ emitted' = emitted]_vars
  /\ [][(TimerFiring /\ timer /\ Terminal(status)) =>
          /\ lastOp' = "stopTic"
          /\ UNCHANGED <<root, seq, leaf, bb, status>>
          /\ ~timer'
          /\ emitted' = Append(emitted, [name |-> "complete", status |-> status])]_vars
  /\ [][lastOp' = "stopTic" => Terminal(status)]_vars

\* a tic has just returned a terminal code: the status is stored, the timer is
\* still set and 'complete' has not been emitted
C15_Witness ==
  /\ lastOp = "tic"
  /\ Terminal(status)
  /\ timer
  /\ Completes = {}

\* C16: abort() on an active controller sends one 'abort' event into the root,
\* stores the code the root returns as the status and then emits one 'abort'
\* notification, which finds the status already updated.
C16_AbortActive ==
  [][(AbortCalled /\ timer) =>
       \E r \in {sendBTEvent(Tree, "abort")} :
         /\ lastOp' = "abort:sent"
         /\ <<root', seq', leaf', bb'>> = <<r.t.root, r.t.seq, r.t.leaf, r.t.bb>>
         /\ status' = r.res
         /\ emitted' = Append(emitted, [name |-> "abort", status |-> r.res])
         /\ timer' = timer]_vars

\* the one abort() of the run found the abort procedure's landing rejected:
\* the root answered ERROR and the 'abort' notification carries it
C16_Witness ==
  /\ lastOp = "abort:sent"
  /\ calls.abort = 1
  /\ status = ERROR
  /\ emitted = <<[name |-> "launch", status |-> RUNNING],
                 [name |-> "abort", status |-> ERROR]>>

\* the flight-plan leg in progress is RUNNING
LegRunning ==
  /\ root.latch = UNDEF
  /\ seq[FP].latch = UNDEF
  /\ ~seq[FP].aborted
  /\ seq[FP].running # 0
  /\ leaf[Children(FP)[seq[FP].running]].lastResult = RUNNING
  /\ leaf[Children(FP)[seq[FP].running]].status = RUNNING

\* the flight plan was aborted while a leg was in progress
AbortedInFlight ==
  /\ seq[FP].aborted
  /\ seq[FP].latch = UNDEF
  /\ seq[FP].running # 0
  /\ leaf[Children(FP)[seq[FP].running]].lastResult = RUNNING

\* C17: an abort() accepted while a flight-plan leg is RUNNING makes the root
\* evaluate the abort procedure, in that call or on the next tick; the abort
\* procedure then runs to a terminal code (the timer keeps firing and the
\* vehicle settles what it was given), and a terminal controller status is
\* the abort procedure's terminal code.
C17_AbortProceeds ==
  /\ [][(AbortCalled /\ timer /\ LegRunning) =>
          /\ seq'[FP].aborted
          /\ AbortProcedureEntered' \/ root'.running = AP]_vars
  /\ [][(seq[FP].aborted /\ root.running = AP /\ TickStep) =>
          AbortProcedureEntered']_vars
  /\ []((AbortedInFlight /\ Terminal(status)) => status = seq[AP].latch)
  /\ (AbortedInFlight ~> (Terminal(status) /\ seq[AP].latch = status))

\* the step is a continuation of a command or pose read of flight-plan leaf l
\* that was still outstanding when the flight plan was aborted or had failed
StaleStep(l) ==
  /\ l \in FPLeaves
  /\ seq[FP].aborted \/ FlightPlanFailed
  /\ lastOp' \in {"resolved", "rejected", "pose", "poseRejected"}
  /\ leaf'[l] # leaf[l]

\* of leaf l the continuation has changed the status field at most (and the
\* record of what is outstanding and of the pose read)
OwnStatusOnly(l) ==
  /\ leaf'[l].lastResult = leaf[l].lastResult
  /\ leaf'[l].issued = leaf[l].issued
  /\ leaf'[l].targetPos = leaf[l].targetPos
  /\ \A k \in Leaves \ {l} : leaf'[k] = leaf[k]
  /\ UNCHANGED <<root, seq, status, timer, emitted>>

\* trees t1 and t2 differ at most in leaf l and in errorReason
SameButLeaf(t1, t2, l) ==
  /\ t1.root = t2.root
  /\ t1.seq = t2.seq
  /\ t1.bb.hoverHt = t2.bb.hoverHt
  /\ \A k \in Leaves \ {l} : t1.leaf[k] = t2.leaf[k]

\* the root answers event ev after the step as it would have before it
SameAnswer(l, ev) ==
  \E r1 \in {sendBTEvent(Tree, ev)}, r2 \in {sendBTEvent(Tree', ev)} :
    /\ r1.res = r2.res
    /\ SameButLeaf(r1.t, r2.t, l)
    /\ r1.t.leaf[l] = leaf[l]
    /\ r2.t.leaf[l] = leaf'[l]

\* C18 as stated: a stale continuation of a flight-plan leaf changes only that
\* leaf's own status field, and the root answers every later event as it
\* would have without it.
C18_LateResolution_StatusOnly ==
  [][\A l \in Leaves : StaleStep(l) =>
       /\ OwnStatusOnly(l)
       /\ bb' = bb
       /\ \A ev \in BTEvents : SameAnswer(l, ev)]_vars

\* C18 amended: the same, except that a stale rejection also stores its
\* message in the blackboard's errorReason.
C18_LateResolution_ErrorReason ==
  [][\A l \in Leaves : StaleStep(l) =>
       /\ OwnStatusOnly(l)
       /\ bb'.hoverHt = bb.hoverHt
       /\ bb' # bb => (RejectedStep(l) /\ bb'.errorReason \in Messages)
       /\ \A ev \in BTEvents : SameAnswer(l, ev)]_vars

\* the leg that was in flight at the abort has since been rejected, and the
\* abort procedure is in progress without an error of its own
C18_Witness ==
  /\ seq[FP].aborted
  /\ lastOp = "rejected"
  /\ bb.errorReason \in Messages
  /\ \E l \in FPLeaves : leaf[l].status = ERROR /\ leaf[l].lastResult = RUNNING
  /\ \A l \in APLeaves : leaf[l].status # ERROR
  /\ status = RUNNING

\* the sequence leaf l belongs to; leaf ids follow the list order of main()
SeqOf(l) == IF l \in FPLeaves THEN FP ELSE AP
LastOf(s) == IF s = FP THEN Len(plan) ELSE NLeaves
Activated(l) == leaf[l].issued > 0

\* C19: in each sequence a leaf is activated only after the leaf before it
\* has reported SUCCESS (so activation follows the list order), each leaf is
\* activated at most once, the sequence returns SUCCESS only after its last
\* leaf has reported SUCCESS, and when a leaf reports FAILURE or ERROR the
\* sequence returns that code and no later leaf is ever activated.
C19_SequenceOrder ==
  /\ [](\A l \in Leaves :
          /\ leaf[l].issued <= 1
          /\ (Activated(l) /\ l - 1 \in Leaves /\ SeqOf(l - 1) = SeqOf(l)) =>
               (Activated(l - 1) /\ leaf[l - 1].lastResult = SUCCESS)
          /\ leaf[l].lastResult \in {FAILURE, ERROR} =>
               /\ seq[SeqOf(l)].latch = leaf[l].lastResult
               /\ \A k \in Leaves : (k > l /\ SeqOf(k) = SeqOf(l)) => ~Activated(k))
  /\ [](\A s \in {FP, AP} :
          seq[s].latch = SUCCESS => leaf[LastOf(s)].lastResult = SUCCESS)
  /\ [][\A s \in {FP, AP} :
          seq[s].latch # UNDEF =>
            /\ seq'[s].latch = seq[s].latch
            /\ \A l \in Leaves : SeqOf(l) = s => leaf'[l].issued = leaf[l].issued]_vars

\* the flight plan ran its first leg to SUCCESS and failed on its second, and
\* the abort procedure ran both of its leaves to SUCCESS
C19_Witness ==
  /\ calls.abort = 0
  /\ leaf[1].lastResult = SUCCESS
  /\ leaf[2].lastResult = FAILURE
  /\ seq[FP].latch = FAILURE
  /\ \A l \in APLeaves : leaf[l].lastResult = SUCCESS
  /\ seq[AP].latch = SUCCESS

\* the step issues the command of leaf l
IssuedStep(l) == leaf'[l].issued > leaf[l].issued

\* C20: the moveToPosition command of a ReturnHomeAction is issued with the
\* target x = 0, y = 0 and z = the blackboard's hoverHt at that activation,
\* whatever the constructor's default altitude.
C20_ReturnHomeTarget ==
  [][\A l \in Leaves : (Kind(l) = "ReturnHome" /\ IssuedStep(l)) =>
       /\ bb'.hoverHt = bb.hoverHt
       /\ leaf'[l].targetPos = Vec(0, 0, bb.hoverHt)
       /\ leaf'[l].moves = 1]_vars

\* a return-home command is outstanding towards the altitude the takeoff
\* stored, which is not the default
C20_Witness ==
  \E l \in Leaves :
    /\ Kind(l) = "ReturnHome"
    /\ leaf[l].moves = 1
    /\ bb.hoverHt = TAKEOFF_HT
    /\ leaf[l].targetPos = Vec(0, 0, TAKEOFF_HT)
    /\ leaf[l].targetPos # Home

\* a takeoff leaf has completed: its pose read found it within the margin
TakeoffCompleted(l) ==
  /\ Kind(l) = "Takeoff"
  /\ leaf[l].status = SUCCESS
  /\ leaf[l].readPose # <<>>

\* C21: once a takeoff leaf has completed, the blackboard's hoverHt is the
\* altitude of the pose read after its command resolved, and a return-home
\* activated afterwards is issued towards that altitude.
C21_AchievedHoverHt ==
  /\ [](\A l \in Leaves : TakeoffCompleted(l) =>
          bb.hoverHt = leaf[l].readPose[1].z)
  /\ [][\A l, h \in Leaves :
          (TakeoffCompleted(l) /\ Kind(h) = "ReturnHome" /\ IssuedStep(h)) =>
            leaf'[h].targetPos.z = leaf[l].readPose[1].z]_vars

\* leaf l has issued a command that has not settled: the command itself, or
\* the pose read its then callback made, is outstanding
Outstanding(l) == leaf[l].moves + leaf[l].poses > 0
OutstandingLeaves == {l \in Leaves : Outstanding(l)}

\* C22 as stated: across the whole tree at most one command is outstanding,
\* and no leaf issues a command while another leaf's is outstanding.
C22_OneCommandInTree ==
  /\ [](Cardinality(OutstandingLeaves) <= 1)
  /\ [][\A l \in Leaves : IssuedStep(l) =>
          \A k \in Leaves \ {l} : ~Outstanding(k)]_vars

\* C22 amended: each sequence has at most one command outstanding, and so has
\* the whole tree as long as the flight plan is not aborted; a leaf issues a
\* command while another leaf's is outstanding only in the abort procedure,
\* the other being the flight-plan leg that was in flight at the abort.
C22_OneCommandPerBranch ==
  /\ [](\A s \in {FP, AP} :
          Cardinality({l \in OutstandingLeaves : SeqOf(l) = s}) <= 1)
  /\ [](~seq[FP].aborted => Cardinality(OutstandingLeaves) <= 1)
  /\ [][\A l \in Leaves : IssuedStep(l) =>
          \A k \in Leaves \ {l} : Outstanding(k) =>
            /\ seq'[FP].aborted
            /\ k \in FPLeaves
            /\ l \in APLeaves
            /\ leaf[k].lastResult = RUNNING]_vars

\* the leg aborted in flight and the abort procedure's landing both have a
\* command outstanding
C22_Witness ==
  /\ seq[FP].aborted
  /\ \E k \in FPLeaves : leaf[k].moves = 1
  /\ \E l \in APLeaves : Kind(l) = "Land" /\ leaf[l].moves = 1
  /\ Cardinality(OutstandingLeaves) = 2

\* the three states of the controller
NotStarted == status = UNDEF /\ ~timer
Running == timer /\ status # UNDEF
Complete == ~timer /\ Terminal(status)

\* C23: between calls the controller is in exactly one of the states not
\* started, running and complete, so 'timer inactive and status RUNNING' does
\* not occur; once the timer has been stopped the status never changes and
\* the timer is never started again.
C23_Lifecycle ==
  /\ [](Cardinality({b \in {<<1, NotStarted>>, <<2, Running>>, <<3, Complete>>} : b[2]}) = 1)
  /\ [](~(~timer /\ status = RUNNING))
  /\ [](NotStarted <=> calls.launched = 0)
  /\ [][Complete => (Complete' /\ status' = status)]_vars

\* a completed controller has since been asked to abort and to launch
C23_Witness ==
  /\ Complete
  /\ calls.launched = 1
  /\ calls.launch = MaxLaunches
  /\ calls.abort = MaxAborts
  /\ lastOp = "abort:completed"

\* C24: whenever a leaf's status is ERROR the blackboard's errorReason holds a
\* message; errorReason is written only by the catch callback of a rejected
\* command and is never cleared; so a controller status of ERROR comes with
\* an error message on the blackboard.
C24_ErrorEvidence ==
  /\ [](\A l \in Leaves : leaf[l].status = ERROR => bb.errorReason \in Messages)
  /\ [][bb'.errorReason # bb.errorReason =>
          /\ \E l \in Leaves : RejectedStep(l) /\ leaf'[l].status = ERROR
          /\ bb'.errorReason \in Messages]_vars
  /\ [](status = ERROR =>
          /\ bb.errorReason \in Messages
          /\ \E l \in Leaves : leaf[l].status = ERROR)

\* the mission has completed with ERROR: the abort procedure's landing was
\* rejected after the flight plan had failed on a missed position
C24_Witness ==
  /\ status = ERROR
  /\ ~timer
  /\ bb.errorReason = "timeout"
  /\ seq[FP].latch = FAILURE
  /\ seq[AP].latch = ERROR

====
